---- MODULE Spec2Model ----
(***************************************************************************)
(* Model of the combinatorial core of loto-serbia-ai:                      *)
(*   lotto_ai/core/wheeling.py            (full / abbreviated wheel,       *)
(*                                         wheel verifier)                 *)
(*   lotto_ai/core/coverage_optimizer.py  (greedy coverage optimizer)      *)
(* Every call starts from the idle state with arguments drawn from bounded *)
(* sets; a loop of the code is one action per iteration; every random      *)
(* draw of the code is a nondeterministic choice over all its outcomes.    *)
(***************************************************************************)
EXTENDS Integers, Sequences, FiniteSets, TLC

(***************************************************************************)
(* Bounds of the model.                                                    *)
(***************************************************************************)
\* MAX_NUMBER of the bounded model (config.py sets 39)
PoolSize == 4
\* largest max_tickets argument of generate_abbreviated_wheel
MaxTickets == 2
\* candidates of one batch that the model draws (the code draws >= 1000)
MaxBatch == 2
\* largest n_tickets argument of optimize_portfolio_coverage
MaxNTickets == 2
\* largest monte_carlo_samples argument of optimize_portfolio_coverage
MaxSamples == 2
\* the iteration counter of a wheel loop that never appends saturates here
MaxIteration == 3

\* most key numbers passed to generate_full_wheel in the size-limit runs
MaxWheelKeys == 14
\* largest n_per_ticket passed to generate_full_wheel in the size-limit runs
MaxWheelSize == 7

\* most helper calls made on one result
MaxCalls == 2

\* config.MAX_NUMBER in the scoring runs: a pool in which two tickets can
\* share five numbers and more
ScorePool == 6

\* config.py: MIN_NUMBER
MIN_NUMBER == 1

VARIABLES
    pc,                \* position: "idle", "wheel_loop", "opt_loop", "done", "raised"
    op,                \* the function that was called ("none" when idle)
    error,             \* exception raised to the caller ("none", "ValueError")
    MAX_NUMBER,        \* config.py: MAX_NUMBER
    sampled,           \* TRUE once a random candidate has been drawn
    calls,             \* what the helper functions called since then returned
    \* ---- wheeling.py
    key_numbers, guarantee_if_hit, guarantee_match, n_per_ticket, max_tickets,
    hit_subsets, uncovered, tickets, iteration, guarantee, log_uncovered,
    result,            \* the value verify_wheel_guarantee returned (FALSE before)
    \* ---- coverage_optimizer.py
    n_tickets, n_numbers, min_num, max_num, monte_carlo_samples,
    portfolio, covered_pairs, covered_triples, coverage_stats

ctlVars == <<pc, op, error, MAX_NUMBER, sampled, calls>>
wheelArgs == <<key_numbers, guarantee_if_hit, guarantee_match, n_per_ticket, max_tickets>>
wheelVars == <<hit_subsets, uncovered, tickets, iteration, guarantee, log_uncovered,
               result>>
optArgs == <<n_tickets, n_numbers, min_num, max_num, monte_carlo_samples>>
optVars == <<portfolio, covered_pairs, covered_triples, coverage_stats>>
vars == <<ctlVars, wheelArgs, wheelVars, optArgs, optVars>>

\* Python's None, for a report that does not exist (yet)
None == [type |-> "None"]

(***************************************************************************)
(* Python built-ins used by the code.                                      *)
(***************************************************************************)
Min(a, b) == IF a <= b THEN a ELSE b
Max(a, b) == IF a >= b THEN a ELSE b

\* set(seq)
ToSet(s) == {s[i] : i \in DOMAIN s}

\* sum(seq)
RECURSIVE SumSeq(_)
SumSeq(s) == IF s = <<>> THEN 0 ELSE Head(s) + SumSeq(Tail(s))

RECURSIVE Insert(_, _)
Insert(x, s) ==
    IF s = <<>> THEN <<x>>
    ELSE IF x <= Head(s) THEN <<x>> \o s
    ELSE <<Head(s)>> \o Insert(x, Tail(s))

\* sorted(seq)
RECURSIVE Sorted(_)
Sorted(s) == IF s = <<>> THEN <<>> ELSE Insert(Head(s), Sorted(Tail(s)))

\* seq[:n] for any integer n (a negative n counts from the end)
Slice(s, n) ==
    LET k == IF n >= 0 THEN Min(n, Len(s)) ELSE Max(Len(s) + n, 0)
    IN  SubSeq(s, 1, k)

\* math.comb(n, k)
RECURSIVE comb(_, _)
comb(n, k) ==
    IF k < 0 \/ k > n THEN 0
    ELSE IF k = 0 THEN 1
    ELSE (comb(n - 1, k - 1) * n) \div k

\* list(itertools.combinations(seq, r)): the r-tuples of positions in
\* increasing order, in lexicographic order of the positions
RECURSIVE Combinations(_, _)
Combinations(s, r) ==
    IF r = 0 THEN << <<>> >>
    ELSE IF Len(s) < r THEN <<>>
    ELSE LET rest == Combinations(Tail(s), r - 1)
         IN  [i \in 1..Len(rest) |-> <<Head(s)>> \o rest[i]]
             \o Combinations(Tail(s), r)

\* the outcomes of random.sample(population, k) and of the first k entries
\* of random.shuffle(population): every arrangement of k distinct elements
RECURSIVE Samples(_, _)
Samples(S, k) ==
    IF k <= 0 THEN {<<>>}
    ELSE UNION {{<<x>> \o s : s \in Samples(S \ {x}, k - 1)} : x \in S}

\* fault: the sample is kept in the order drawn, the sort is left out
SortedSamplesUnsorted(S, k) == Samples(S, k)

\* the sorted lists that sorted(random.sample(population, k)) can return
SortedSamples(S, k) == {Sorted(s) : s \in Samples(S, k)}

\* range(MIN_NUMBER, MAX_NUMBER + 1)
Pool == MIN_NUMBER..MAX_NUMBER

(***************************************************************************)
(* wheeling.py: verify_wheel_guarantee                                     *)
(***************************************************************************)
\* the inner loop over tickets, with its break: is hit_combo matched by
\* tickets[i..] in at least guarantee_match numbers
\* fault: the loop over the tickets stops after its first ticket
CoveredFromFirstTicket(hit_combo, tks, i, gm) ==
    /\ i <= Len(tks)
    /\ Cardinality(ToSet(hit_combo) \cap ToSet(tks[i])) >= gm

\* fault: ">" in place of ">=" in the test of the intersection
CoveredFromStrict(hit_combo, tks, i, gm) ==
    \E j \in i..Len(tks) : Cardinality(ToSet(hit_combo) \cap ToSet(tks[j])) > gm

RECURSIVE CoveredFrom(_, _, _, _)
CoveredFrom(hit_combo, tks, i, gm) ==
    IF i > Len(tks) THEN FALSE
    ELSE IF Cardinality(ToSet(hit_combo) \cap ToSet(tks[i])) >= gm THEN TRUE
    ELSE CoveredFrom(hit_combo, tks, i + 1, gm)

\* fault: the loop does not return at the first uncovered combination,
\* it goes on and reports the last one
FirstUncoveredNoReturn(combos, tks, i, gm) ==
    LET U == {j \in i..Len(combos) : ~CoveredFrom(combos[j], tks, 1, gm)}
    IN  IF U = {} THEN 0 ELSE CHOOSE j \in U : \A k \in U : k <= j

\* the outer loop over the combinations: the position (from 1) of the
\* first combination from position i that no ticket covers, where the code
\* logs it and returns False; 0 when the loop runs to its end
FirstUncovered(combos, tks, i, gm) ==
    LET U == {j \in i..Len(combos) : ~CoveredFrom(combos[j], tks, 1, gm)}
    IN  IF U = {} THEN 0 ELSE CHOOSE j \in U : \A k \in U : j <= k

\* fault: only the first combination is checked
verify_wheel_guarantee_first_only(tks, keys, gih, gm) ==
    LET combos == Combinations(keys, gih)
    IN  combos = <<>> \/ CoveredFrom(combos[1], tks, 1, gm)

\* fault: True is returned as soon as one combination is covered
verify_wheel_guarantee_any_covered(tks, keys, gih, gm) ==
    LET combos == Combinations(keys, gih)
    IN  combos = <<>> \/ \E i \in DOMAIN combos : CoveredFrom(combos[i], tks, 1, gm)

verify_wheel_guarantee(tks, keys, gih, gm) ==
    FirstUncovered(Combinations(keys, gih), tks, 1, gm) = 0

\* the subset the verifier logs at debug level before it returns False
VerifierLog(tks, keys, gih, gm) ==
    LET combos == Combinations(keys, gih)
        i == FirstUncovered(combos, tks, 1, gm)
    IN  IF i = 0 THEN <<>> ELSE <<combos[i]>>

(***************************************************************************)
(* wheeling.py: generate_abbreviated_wheel                                 *)
(***************************************************************************)
\* other_numbers: the numbers of the pool that are no key numbers
other_numbers == Pool \ ToSet(key_numbers)

total_subsets == Len(hit_subsets)

\* n_candidates of the code
n_candidates == Min(3000, Max(1000, total_subsets * 10))

\* The model draws the first BatchLen candidates of a batch.  The code keeps
\* the first candidate that covers the most, so a batch continued with
\* repetitions of its last candidate picks the same ticket.
BatchLen == Min(n_candidates, MaxBatch)

\* fault: only the first of the covered subsets is recorded as covered
NewlyCoveredFirstOnly(ticket) ==
    LET all == {idx \in uncovered :
                  Cardinality(ToSet(hit_subsets[idx + 1]) \cap ToSet(ticket))
                      >= guarantee_match}
    IN  {idx \in all : \A other \in all : idx <= other}

\* fault: ">" in place of ">=" in the overlap test
NewlyCoveredStrict(ticket) ==
    {idx \in uncovered :
        Cardinality(ToSet(hit_subsets[idx + 1]) \cap ToSet(ticket)) > guarantee_match}

\* the uncovered subsets that a ticket covers (the loops at lines 162-166
\* and 193-196); indices count from 0 as in the code
NewlyCovered(ticket) ==
    {idx \in uncovered :
        Cardinality(ToSet(hit_subsets[idx + 1]) \cap ToSet(ticket)) >= guarantee_match}

\* the padding loop: numbers not in the candidate are appended, one random
\* choice at a time, until the candidate is full or no number remains
Pad(candidate) ==
    LET remaining == Pool \ ToSet(candidate)
        k == Min(n_per_ticket - Len(candidate), Cardinality(remaining))
    IN  {Sorted(candidate \o p) : p \in Samples(remaining, k)}

\* every value the variable candidate can have when line 155 is reached
CandidateOutcomes ==
    LET n_keys == Len(key_numbers)
        min_keys_in_ticket == Min(guarantee_match, n_keys)
        max_keys_in_ticket == Min(n_keys, n_per_ticket)
        Filled(chosen_keys) ==
            LET n_fill == n_per_ticket - Len(chosen_keys)
            IN  IF n_fill > 0 /\ other_numbers # {}
                THEN {Sorted(chosen_keys \o chosen_fill) :
                        chosen_fill \in SortedSamples(other_numbers,
                                          Min(n_fill, Cardinality(other_numbers)))}
                ELSE {chosen_keys}
    IN  UNION {UNION {UNION {Pad(c) : c \in Filled(chosen_keys)} :
                        chosen_keys \in SortedSamples(ToSet(key_numbers), n_from_keys)} :
                 n_from_keys \in min_keys_in_ticket..max_keys_in_ticket}

\* Python's "best_ticket = None; best_newly_covered = set()" (lines 119-120)
NoBest == [none |-> TRUE, ticket |-> <<>>, newly |-> {}]

\* fault: a later candidate that covers as much replaces the best one
CandidateStepKeepsLast(best, candidate) ==
    LET newly_covered == NewlyCovered(candidate)
    IN  IF Len(candidate) # n_per_ticket THEN best
        ELSE IF Cardinality(newly_covered) >= Cardinality(best.newly)
        THEN [none |-> FALSE, ticket |-> candidate, newly |-> newly_covered]
        ELSE best

\* the body of the candidate loop once the candidate is built (lines
\* 155-170): best = [none, ticket, newly] is best_ticket (none: it is None)
\* and best_newly_covered before, the result is their value after
CandidateStep(best, candidate) ==
    LET newly_covered == NewlyCovered(candidate)
    IN  IF Len(candidate) # n_per_ticket THEN best
        ELSE IF Cardinality(newly_covered) > Cardinality(best.newly)
        THEN [none |-> FALSE, ticket |-> candidate, newly |-> newly_covered]
        ELSE best

\* the candidate loop (lines 129-170) over a given batch, from position i
RECURSIVE BestOfBatch(_, _, _)
BestOfBatch(batch, i, best) ==
    IF i > Len(batch) THEN best
    ELSE BestOfBatch(batch, i + 1, CandidateStep(best, batch[i]))

\* every value of (best_ticket, best_newly_covered) after n candidates of
\* the loop, over all the candidates the sampling can produce
RECURSIVE BestAfter(_)
BestAfter(n) ==
    IF n = 0 THEN {NoBest}
    ELSE LET candidates == CandidateOutcomes
         IN  {CandidateStep(best, c) : best \in BestAfter(n - 1), c \in candidates}

\* best_ticket and best_newly_covered when the candidate loop has ended
BatchResults == BestAfter(BatchLen)

\* fault: the force-built ticket is filled from the available numbers
\* alone, the numbers of the subset are left out
ForceTicketsFillOnly(idx) ==
    LET subset_nums == hit_subsets[idx + 1]
        available == (ToSet(key_numbers) \cup other_numbers) \ ToSet(subset_nums)
        k == Min(n_per_ticket, Cardinality(available))
    IN  {Sorted(ext) : ext \in Samples(available, k)}

\* fault: the force-built ticket is cut to size but not sorted
ForceTicketsUnsorted(idx) ==
    LET subset_nums == hit_subsets[idx + 1]
        remaining_needed == n_per_ticket - Len(subset_nums)
        available == (ToSet(key_numbers) \cup other_numbers) \ ToSet(subset_nums)
        n_avail == Cardinality(available)
        k == IF remaining_needed >= 0 THEN Min(remaining_needed, n_avail)
             ELSE Max(n_avail + remaining_needed, 0)
    IN  {Slice(subset_nums \o ext, n_per_ticket) : ext \in Samples(available, k)}

\* the fallback (lines 175-186): the tickets that can be force-built from
\* uncovered subset idx; available is shuffled, so its first entries are
\* any arrangement
ForceTickets(idx) ==
    LET subset_nums == hit_subsets[idx + 1]
        remaining_needed == n_per_ticket - Len(subset_nums)
        available == (ToSet(key_numbers) \cup other_numbers) \ ToSet(subset_nums)
        n_avail == Cardinality(available)
        k == IF remaining_needed >= 0 THEN Min(remaining_needed, n_avail)
             ELSE Max(n_avail + remaining_needed, 0)
    IN  {Sorted(Slice(subset_nums \o ext, n_per_ticket)) : ext \in Samples(available, k)}

\* fault: the loop runs once more when max_tickets is reached
WheelLoopCondOneMore == uncovered # {} /\ Len(tickets) <= max_tickets

\* the while condition at line 117
WheelLoopCond == uncovered # {} /\ Len(tickets) < max_tickets

\* float(a / b * 100) kept exact as a fraction
Pct(a, b) == [num |-> a * 100, den |-> b]

\* the guarantee report built at lines 209-242
WheelReport ==
    LET verified == verify_wheel_guarantee(tickets, key_numbers,
                                           guarantee_if_hit, guarantee_match)
        covered_count == total_subsets - Cardinality(uncovered)
    IN  [type |-> "abbreviated_wheel",
         key_numbers |-> key_numbers,
         n_key_numbers |-> Len(key_numbers),
         n_tickets |-> Len(tickets),
         guarantee_if_hit |-> guarantee_if_hit,
         guarantee_match |-> guarantee_match,
         subsets_to_cover |-> total_subsets,
         subsets_covered |-> covered_count,
         coverage_pct |-> IF total_subsets > 0 THEN Pct(covered_count, total_subsets)
                          ELSE Pct(1, 1),
         verified |-> verified,
         uncovered_remaining |-> Cardinality(uncovered),
         warning |-> IF ~verified THEN <<max_tickets, Cardinality(uncovered)>>
                     ELSE <<>>]

(***************************************************************************)
(* Arguments the callers pass, within the bounds.                          *)
(***************************************************************************)
\* key_numbers as the caller passes them: distinct numbers of the pool in
\* any order
KeyInputs == UNION {Samples(Pool, k) : k \in 0..PoolSize}

\* guarantee_if_hit, guarantee_match, n_per_ticket: 1 .. one past the pool
SizeInputs == 1..(PoolSize + 1)

\* the state before any call, with config.MAX_NUMBER = mx
InitWith(mx) ==
    /\ pc = "idle" /\ op = "none" /\ error = "none"
    /\ MAX_NUMBER = mx
    /\ sampled = FALSE /\ calls = <<>>
    /\ key_numbers = <<>> /\ guarantee_if_hit = 0 /\ guarantee_match = 0
    /\ n_per_ticket = 0 /\ max_tickets = 0
    /\ hit_subsets = <<>> /\ uncovered = {} /\ tickets = <<>> /\ iteration = 0
    /\ guarantee = None /\ log_uncovered = <<>> /\ result = FALSE
    /\ n_tickets = 0 /\ n_numbers = 0 /\ min_num = 0 /\ max_num = 0
    /\ monte_carlo_samples = 0
    /\ portfolio = <<>> /\ covered_pairs = {} /\ covered_triples = {}
    /\ coverage_stats = None

Init == InitWith(PoolSize)

\* fault: the check of guarantee_match against n_per_ticket is missing
WheelPreconditionFailsNoTicketCheck(keys, gih, gm, npt) ==
    \/ Len(keys) < gih
    \/ gm > gih

\* the three precondition checks at lines 83-98
WheelPreconditionFails(keys, gih, gm, npt) ==
    \/ Len(keys) < gih
    \/ gm > gih
    \/ gm > npt

\* generate_abbreviated_wheel, lines 80-116: sort the keys, validate,
\* enumerate the hit subsets and enter the loop
WheelCall(keysIn, gih, gm, npt, mt) ==
    /\ pc = "idle"
    /\ op' = "generate_abbreviated_wheel"
    /\ key_numbers' = Sorted(keysIn)
    /\ guarantee_if_hit' = gih /\ guarantee_match' = gm
    /\ n_per_ticket' = npt /\ max_tickets' = mt
    /\ IF WheelPreconditionFails(Sorted(keysIn), gih, gm, npt)
       THEN /\ pc' = "raised" /\ error' = "ValueError"
            /\ UNCHANGED <<hit_subsets, uncovered>>
       ELSE /\ pc' = "wheel_loop" /\ error' = "none"
            /\ hit_subsets' = Combinations(Sorted(keysIn), gih)
            /\ uncovered' = 0..(Len(Combinations(Sorted(keysIn), gih)) - 1)
    /\ UNCHANGED <<MAX_NUMBER, calls, sampled, tickets, iteration, guarantee, log_uncovered,
                   result>>
    /\ UNCHANGED <<optArgs, optVars>>

\* one iteration of the while loop in which a sampled candidate covers an
\* uncovered subset and is appended (lines 118-170, 199-201)
WheelIterateSearch ==
    /\ pc = "wheel_loop" /\ WheelLoopCond
    /\ \E best \in BatchResults :
         /\ ~(best.none \/ Cardinality(best.newly) = 0)
         /\ tickets' = Append(tickets, best.ticket)
         /\ uncovered' = uncovered \ best.newly
    /\ iteration' = Min(iteration + 1, MaxIteration)
    /\ sampled' = TRUE
    /\ UNCHANGED <<pc, op, error, MAX_NUMBER, calls, wheelArgs, hit_subsets, guarantee,
                   log_uncovered, result, optArgs, optVars>>

\* one iteration in which no candidate covers anything and the fallback
\* builds a ticket of n_per_ticket numbers (lines 172-201); list(uncovered)
\* is in the set's own order, so idx is any uncovered index
WheelIterateFallback ==
    /\ pc = "wheel_loop" /\ WheelLoopCond
    /\ \E best \in BatchResults : best.none \/ Cardinality(best.newly) = 0
    /\ \E idx \in uncovered : \E ticket_nums \in ForceTickets(idx) :
         /\ Len(ticket_nums) = n_per_ticket
         /\ tickets' = Append(tickets, ticket_nums)
         /\ uncovered' = uncovered \ NewlyCovered(ticket_nums)
    /\ iteration' = Min(iteration + 1, MaxIteration)
    /\ sampled' = TRUE
    /\ UNCHANGED <<pc, op, error, MAX_NUMBER, calls, wheelArgs, hit_subsets, guarantee,
                   log_uncovered, result, optArgs, optVars>>

\* one iteration in which no candidate covers anything and no force-built
\* ticket has n_per_ticket numbers: best_ticket stays None, nothing is
\* appended (lines 172-199)
WheelIterateNone ==
    /\ pc = "wheel_loop" /\ WheelLoopCond
    /\ \E best \in BatchResults : best.none \/ Cardinality(best.newly) = 0
    /\ \A idx \in uncovered : \E ticket_nums \in ForceTickets(idx) :
         Len(ticket_nums) # n_per_ticket
    /\ iteration' = Min(iteration + 1, MaxIteration)
    /\ sampled' = TRUE
    /\ UNCHANGED <<pc, op, error, MAX_NUMBER, calls, wheelArgs, hit_subsets, uncovered,
                   tickets, guarantee, log_uncovered, result, optArgs, optVars>>

\* the loop has ended: verify, build the report, return (lines 208-244)
WheelReturn ==
    /\ pc = "wheel_loop" /\ ~WheelLoopCond
    /\ pc' = "done"
    /\ guarantee' = WheelReport
    /\ log_uncovered' = VerifierLog(tickets, key_numbers, guarantee_if_hit,
                                    guarantee_match)
    /\ result' = verify_wheel_guarantee(tickets, key_numbers, guarantee_if_hit,
                                        guarantee_match)
    /\ UNCHANGED <<op, error, MAX_NUMBER, calls, sampled, wheelArgs, hit_subsets, uncovered,
                   tickets, iteration, optArgs, optVars>>

\* generate_abbreviated_wheel called with any max_tickets, a negative one
\* included
WheelAnyLimit ==
    \/ /\ pc = "idle"
       /\ \E keysIn \in KeyInputs, gih \in SizeInputs, gm \in SizeInputs,
             npt \in SizeInputs, mt \in -1..MaxTickets :
             WheelCall(keysIn, gih, gm, npt, mt)
    \/ WheelIterateSearch
    \/ WheelIterateFallback
    \/ WheelIterateNone
    \/ WheelReturn

\* what the sampling of one candidate left in the variable candidate at
\* line 155, and the ticket the fallback built (lines 175-186)
CandidateLog(batch) ==
    [i \in DOMAIN batch |-> [fn |-> "random.sample", at |-> "candidate", value |-> batch[i]]]

ForceLog(ticket) == <<[fn |-> "random.shuffle", at |-> "fallback", value |-> ticket]>>

\* one iteration of the while loop (lines 118-201) with the candidates it
\* sampled, in order, kept in calls: the three iterations above, one batch
\* at a time
WheelIterateSampled ==
    /\ pc = "wheel_loop" /\ WheelLoopCond
    /\ \E batch \in [1..BatchLen -> CandidateOutcomes] :
         LET best == BestOfBatch(batch, 1, NoBest)
             forced == {f \in UNION {ForceTickets(idx) : idx \in uncovered} :
                          Len(f) = n_per_ticket}
         IN  IF ~(best.none \/ Cardinality(best.newly) = 0)
             THEN /\ tickets' = Append(tickets, best.ticket)
                  /\ uncovered' = uncovered \ best.newly
                  /\ calls' = CandidateLog(batch)
             ELSE IF forced # {}
             THEN \E ticket_nums \in forced :
                    /\ tickets' = Append(tickets, ticket_nums)
                    /\ uncovered' = uncovered \ NewlyCovered(ticket_nums)
                    /\ calls' = CandidateLog(batch) \o ForceLog(ticket_nums)
             ELSE /\ calls' = CandidateLog(batch)
                  /\ UNCHANGED <<tickets, uncovered>>
    /\ iteration' = Min(iteration + 1, MaxIteration)
    /\ sampled' = TRUE
    /\ UNCHANGED <<pc, op, error, MAX_NUMBER, wheelArgs, hit_subsets, guarantee,
                   log_uncovered, result, optArgs, optVars>>

WheelSampled ==
    \/ /\ pc = "idle"
       /\ \E keysIn \in KeyInputs, gih \in SizeInputs, gm \in SizeInputs,
             npt \in SizeInputs, mt \in 0..MaxTickets :
             WheelCall(keysIn, gih, gm, npt, mt)
    \/ WheelIterateSampled
    \/ WheelReturn

Wheel ==
    \/ /\ pc = "idle"
       /\ \E keysIn \in KeyInputs, gih \in SizeInputs, gm \in SizeInputs,
             npt \in SizeInputs, mt \in 0..MaxTickets :
             WheelCall(keysIn, gih, gm, npt, mt)
    \/ WheelIterateSearch
    \/ WheelIterateFallback
    \/ WheelIterateNone
    \/ WheelReturn

(***************************************************************************)
(* wheeling.py: verify_wheel_guarantee called on its own                   *)
(***************************************************************************)
\* a ticket list of at most MaxTickets tickets of n numbers each
TicketLists(n) ==
    UNION {[1..len -> SortedSamples(Pool, n)] : len \in 0..MaxTickets}

\* the caller builds the arguments of verify_wheel_guarantee
VerifyArgs(tks, keys, gih, gm) ==
    /\ op' = "verify_wheel_guarantee"
    /\ pc' = "verify_ready"
    /\ tickets' = tks /\ key_numbers' = keys
    /\ guarantee_if_hit' = gih /\ guarantee_match' = gm
    /\ UNCHANGED <<error, MAX_NUMBER, calls, sampled, n_per_ticket, max_tickets, hit_subsets,
                   uncovered, iteration, guarantee, log_uncovered, result, optArgs,
                   optVars>>

\* verify_wheel_guarantee runs on them (lines 255-265)
VerifyCall ==
    /\ pc = "verify_ready"
    /\ pc' = "done"
    /\ result' = verify_wheel_guarantee(tickets, key_numbers, guarantee_if_hit,
                                        guarantee_match)
    /\ log_uncovered' = VerifierLog(tickets, key_numbers, guarantee_if_hit,
                                    guarantee_match)
    /\ UNCHANGED <<op, error, MAX_NUMBER, calls, sampled, wheelArgs, hit_subsets, uncovered,
                   tickets, iteration, guarantee, optArgs, optVars>>

Verify ==
    \/ /\ pc = "idle"
       /\ \E n \in 1..PoolSize : \E tks \in TicketLists(n) :
          \E k \in 0..PoolSize : \E keys \in SortedSamples(Pool, k) :
          \E gih \in 1..(k + 1) : \E gm \in 1..(gih + 1) :
             VerifyArgs(tks, keys, gih, gm)
    \/ VerifyCall

\* seq with its entry at position i removed
Without(seq, i) == SubSeq(seq, 1, i - 1) \o SubSeq(seq, i + 1, Len(seq))

\* the caller removes ticket i from a wheel the verifier accepted and runs
\* the verifier again with the same keys and guarantee (lines 255-265)
VerifyWithout(i) ==
    /\ pc = "done" /\ op = "verify_wheel_guarantee" /\ result = TRUE
    /\ pc' = "reverified"
    /\ tickets' = Without(tickets, i)
    /\ result' = verify_wheel_guarantee(Without(tickets, i), key_numbers,
                                        guarantee_if_hit, guarantee_match)
    /\ log_uncovered' = VerifierLog(Without(tickets, i), key_numbers,
                                    guarantee_if_hit, guarantee_match)
    /\ UNCHANGED <<op, error, MAX_NUMBER, calls, sampled, wheelArgs, hit_subsets,
                   uncovered, iteration, guarantee, optArgs, optVars>>

VerifyRemoval ==
    \/ Verify
    \/ \E i \in DOMAIN tickets : VerifyWithout(i)

\* a call of verify_wheel_guarantee with any sizes of the guarantee:
\* itertools.combinations raises ValueError for a negative size (line 255)
VerifyAnyArgs(tks, keys, gih, gm) ==
    IF gih < 0
    THEN /\ op' = "verify_wheel_guarantee"
         /\ pc' = "raised" /\ error' = "ValueError"
         /\ tickets' = tks /\ key_numbers' = keys
         /\ guarantee_if_hit' = gih /\ guarantee_match' = gm
         /\ UNCHANGED <<MAX_NUMBER, calls, sampled, n_per_ticket, max_tickets,
                        hit_subsets, uncovered, iteration, guarantee, log_uncovered,
                        result, optArgs, optVars>>
    ELSE VerifyArgs(tks, keys, gih, gm)

VerifyAny ==
    \/ /\ pc = "idle"
       /\ \E n \in 1..PoolSize : \E tks \in TicketLists(n) :
          \E k \in 0..PoolSize : \E keys \in SortedSamples(Pool, k) :
          \E gih \in (-1)..(k + 1) : \E gm \in (-1)..(gih + 1) :
             VerifyAnyArgs(tks, keys, gih, gm)
    \/ VerifyCall

\* the caller edits the ticket list that the verifier has judged and runs
\* the verifier again with the same keys and guarantee (lines 255-265)
VerifyEdited(tks) ==
    /\ pc = "done" /\ op = "verify_wheel_guarantee"
    /\ pc' = "reverified"
    /\ tickets' = tks
    /\ result' = verify_wheel_guarantee(tks, key_numbers, guarantee_if_hit,
                                        guarantee_match)
    /\ log_uncovered' = VerifierLog(tks, key_numbers, guarantee_if_hit,
                                    guarantee_match)
    /\ UNCHANGED <<op, error, MAX_NUMBER, calls, sampled, wheelArgs, hit_subsets,
                   uncovered, iteration, guarantee, optArgs, optVars>>

\* the edits: a ticket is appended, the list is reordered, a ticket is
\* appended a second time
VerifyAdded ==
    /\ Len(tickets) <= MaxTickets
    /\ \E n \in 1..PoolSize : \E t \in SortedSamples(Pool, n) :
          VerifyEdited(Append(tickets, t))

VerifyReordered ==
    \E p \in Samples(DOMAIN tickets, Len(tickets)) :
       VerifyEdited([i \in DOMAIN tickets |-> tickets[p[i]]])

VerifyDuplicated ==
    /\ Len(tickets) <= MaxTickets
    /\ \E i \in DOMAIN tickets : VerifyEdited(Append(tickets, tickets[i]))

VerifyEdits == VerifyAny \/ VerifyAdded \/ VerifyReordered \/ VerifyDuplicated

(***************************************************************************)
(* wheeling.py: wheel_cost_estimate                                        *)
(***************************************************************************)
\* the dict returned at lines 274-288 (the note, a fixed text, is left out);
\* the division at line 278 raises when max_coverage_per_ticket is 0
wheel_cost_estimate(n_key_numbers, gih, gm, npt) ==
    LET n_subsets == comb(n_key_numbers, gih)
        max_coverage_per_ticket == comb(npt, gm)
        lower_bound == Max(1, (n_subsets + max_coverage_per_ticket - 1)
                               \div max_coverage_per_ticket)
    IN  [n_key_numbers |-> n_key_numbers,
         subsets_to_cover |-> n_subsets,
         max_coverage_per_ticket |-> max_coverage_per_ticket,
         estimated_min_tickets |-> lower_bound,
         estimated_max_tickets |-> Min(lower_bound * 4, n_subsets)]

\* the caller asks for the estimate of the wheel it has just verified: as
\* many keys, the same guarantee, tickets of the size of the first ticket
EstimateCall ==
    /\ pc = "done" /\ op = "verify_wheel_guarantee"
    /\ tickets # <<>> /\ calls = <<>>
    /\ IF comb(Len(tickets[1]), guarantee_match) = 0
       THEN /\ pc' = "raised" /\ error' = "ZeroDivisionError"
            /\ UNCHANGED calls
       ELSE /\ calls' = <<[fn |-> "wheel_cost_estimate",
                           value |-> wheel_cost_estimate(Len(key_numbers),
                                        guarantee_if_hit, guarantee_match,
                                        Len(tickets[1]))]>>
            /\ UNCHANGED <<pc, error>>
    /\ UNCHANGED <<op, MAX_NUMBER, sampled, wheelArgs, wheelVars, optArgs, optVars>>

VerifyEstimate == Verify \/ EstimateCall

(***************************************************************************)
(* wheeling.py: generate_full_wheel                                        *)
(***************************************************************************)
\* the safety bound on the ticket count (line 32)
FullWheelLimit == 500

\* fault: only the combinations that hold the first key become tickets
FullWheelTicketsFirstKey(keys, npt) ==
    LET combos == SelectSeq(Combinations(keys, npt),
                            LAMBDA c : c = <<>> \/ keys[1] \in ToSet(c))
    IN  [i \in 1..Len(combos) |-> Sorted(combos[i])]

\* fault: every ticket is sorted in descending order
FullWheelTicketsDescending(keys, npt) ==
    LET combos == Combinations(keys, npt)
    IN  [i \in 1..Len(combos) |->
           [j \in 1..Len(combos[i]) |-> Sorted(combos[i])[Len(combos[i]) + 1 - j]]]

\* fault: the last combination is dropped
FullWheelTicketsShort(keys, npt) ==
    LET combos == Combinations(keys, npt)
    IN  [i \in 1..(Len(combos) - 1) |-> Sorted(combos[i])]

\* the tickets built at lines 38-41
FullWheelTickets(keys, npt) ==
    LET combos == Combinations(keys, npt)
    IN  [i \in 1..Len(combos) |-> Sorted(combos[i])]

\* fault: the limit is compared with the number of keys, not of tickets
FullWheelRefusesOnKeys(keys, npt) ==
    Len(keys) < npt \/ Len(keys) > FullWheelLimit

\* the two checks at lines 26-36, made on the sorted keys before line 38
FullWheelRefuses(keys, npt) ==
    Len(keys) < npt \/ comb(Len(keys), npt) > FullWheelLimit

FullWheelCall(keysIn, npt) ==
    LET keys == Sorted(keysIn)
        raises == FullWheelRefuses(keys, npt)
    IN  /\ op' = "generate_full_wheel"
        /\ key_numbers' = keys
        /\ n_per_ticket' = npt
        /\ IF raises
           THEN /\ pc' = "raised" /\ error' = "ValueError"
                /\ UNCHANGED <<tickets, guarantee>>
           ELSE /\ pc' = "done" /\ error' = "none"
                /\ tickets' = FullWheelTickets(keys, npt)
                /\ guarantee' = [type |-> "full_wheel",
                                 key_numbers |-> keys,
                                 n_key_numbers |-> Len(keys),
                                 n_tickets |-> Len(FullWheelTickets(keys, npt)),
                                 verified |-> TRUE,
                                 coverage_pct |-> Pct(1, 1)]
        /\ UNCHANGED <<MAX_NUMBER, calls, sampled, guarantee_if_hit, guarantee_match,
                       max_tickets, hit_subsets, uncovered, iteration, log_uncovered,
                       result, optArgs, optVars>>

FullWheel ==
    /\ pc = "idle"
    /\ \E keysIn \in KeyInputs, npt \in SizeInputs : FullWheelCall(keysIn, npt)

\* the caller passes the tickets and the keys that generate_full_wheel
\* returned to verify_wheel_guarantee (lines 247-265)
VerifyFullWheel(gih, gm) ==
    /\ pc = "done" /\ op = "generate_full_wheel"
    /\ pc' = "verified"
    /\ guarantee_if_hit' = gih /\ guarantee_match' = gm
    /\ result' = verify_wheel_guarantee(tickets, key_numbers, gih, gm)
    /\ log_uncovered' = VerifierLog(tickets, key_numbers, gih, gm)
    /\ UNCHANGED <<op, error, MAX_NUMBER, calls, sampled, key_numbers, n_per_ticket,
                   max_tickets, hit_subsets, uncovered, tickets, iteration, guarantee,
                   optArgs, optVars>>

FullWheelVerified ==
    \/ FullWheel
    \/ \E gih \in SizeInputs, gm \in SizeInputs : VerifyFullWheel(gih, gm)

\* generate_full_wheel on the key lists 1..n, long enough to meet the limit
\* of line 32
FullWheelLarge ==
    /\ pc = "idle"
    /\ \E n \in 0..MaxWheelKeys, npt \in 1..MaxWheelSize :
          FullWheelCall([i \in 1..n |-> i], npt)

(***************************************************************************)
(* coverage_optimizer.py: optimize_portfolio_coverage                      *)
(***************************************************************************)
\* monte_carlo_samples when the caller passes None (line 35)
DefaultSamples == 1500

\* list(range(min_num, max_num + 1))
all_numbers == min_num..max_num

\* the counting loops at lines 42-45
TotalPossiblePairs(lo, hi) ==
    Cardinality({p \in (lo..hi) \X (lo..hi) : p[1] < p[2]})

total_possible_pairs == TotalPossiblePairs(min_num, max_num)

\* the pairs (t[i], t[j]), i < j, of a ticket (lines 58-61, 106-108)
PairsOf(t) ==
    {<<t[q[1]], t[q[2]]>> : q \in {r \in (DOMAIN t) \X (DOMAIN t) : r[1] < r[2]}}

\* the triples (t[i], t[j], t[k]), i < j < k, of a ticket (lines 64-70, 109-112)
TriplesOf(t) ==
    {<<t[q[1]], t[q[2]], t[q[3]]>> :
        q \in {r \in (DOMAIN t) \X (DOMAIN t) \X (DOMAIN t) : r[1] < r[2] /\ r[2] < r[3]}}

\* fault: the covered set is overwritten, not updated
AddPairsOverwrite(cp, best_ticket) == PairsOf(best_ticket)

\* fault: pairs are recorded for the first ticket only
AddPairsOnce(cp, best_ticket) == IF cp = {} THEN PairsOf(best_ticket) ELSE cp

\* "Update covered sets" (lines 105-112)
AddPairs(cp, best_ticket) == cp \cup PairsOf(best_ticket)

\* fault: the covered triples are overwritten, not updated
AddTriplesOverwrite(ct, best_ticket) == TriplesOf(best_ticket)

AddTriples(ct, best_ticket) == ct \cup TriplesOf(best_ticket)

\* fault: every ticket that shares a number with the candidate is penalised
RECURSIVE OverlapPenaltyAnyOverlap(_, _)
OverlapPenaltyAnyOverlap(candidate, i) ==
    IF i > Len(portfolio) THEN 0
    ELSE LET overlap == Cardinality(ToSet(candidate) \cap ToSet(portfolio[i]))
         IN  (IF overlap >= 1 THEN 3 ELSE 0)
             + OverlapPenaltyAnyOverlap(candidate, i + 1)

\* overlap_penalty of a candidate against the portfolio from position i
\* (lines 76-80)
RECURSIVE OverlapPenalty(_, _)
OverlapPenalty(candidate, i) ==
    IF i > Len(portfolio) THEN 0
    ELSE LET overlap == Cardinality(ToSet(candidate) \cap ToSet(portfolio[i]))
         IN  (IF overlap >= 5 THEN (overlap - 4) * 3 ELSE 0)
             + OverlapPenalty(candidate, i + 1)

Abs(x) == IF x < 0 THEN -x ELSE x

\* The score is a Python float, an IEEE 754 double: every operation on it
\* returns the double nearest to the exact result, ties to the even
\* mantissa.  A double x of this computation is a multiple of 2^-54 (0.3 is
\* 5404319552844595 / 2^54) and is kept exactly, as the integers tenths and
\* err with 10 * x = tenths + err / 2^54: tenths is the value the
\* operations would give without rounding, times 10, and err is what the
\* roundings have added, |err| < 2^54.
\* float(n) of an int
Float(n) == [tenths |-> 10 * n, err |-> 0]

FloatNeg(x) == [tenths |-> -x.tenths, err |-> -x.err]

\* x >= p / 10 for an integer p
FloatAtLeast(x, p) == x.tenths > p \/ (x.tenths = p /\ x.err >= 0)

\* x > y, the comparison at line 96
FloatGreater(x, y) == x.tenths > y.tenths \/ (x.tenths = y.tenths /\ x.err > y.err)

\* The double nearest to an exact result x >= 0.  With m = x * 2^54, a
\* double in [2^j, 2^(j+1)) is a multiple of 2^(j-52), so the k = j + 2 low
\* bits of m are rounded away (none below 0.5).  They are read from
\* 5 * m = tenths * 2^53 + err / 2, taken modulo 5 * 2^(k+1): 2^n modulo 5
\* is 1, 2, 4, 3 for n = 0, 1, 2, 3 modulo 4.  The integers of the model
\* have 32 bits: the binades counted are all those a value of tenths can
\* lie in.
FloatRoundAbs(x) ==
    LET k == Cardinality({i \in 1..29 : FloatAtLeast(x, 5 * 2^(i - 1))})
        M == 2^(k + 1)
        q == ((x.tenths % 5) * <<1, 2, 4, 3>>[((52 - k) % 4) + 1]) % 5
        mk == ((M * q + ((x.err \div 2) % (5 * M))) % (5 * M)) \div 5
        low == mk % 2^k
        odd == (mk \div 2^k) % 2
        up == 2 * low > 2^k \/ (2 * low = 2^k /\ odd = 1)
    IN  [tenths |-> x.tenths,
         err |-> x.err + 10 * ((IF up THEN 2^k ELSE 0) - low)]

FloatRound(x) ==
    IF x.tenths < 0 \/ (x.tenths = 0 /\ x.err < 0)
    THEN FloatNeg(FloatRoundAbs(FloatNeg(x)))
    ELSE FloatRoundAbs(x)

\* x + y and x - y of two doubles
FloatAdd(x, y) == FloatRound([tenths |-> x.tenths + y.tenths, err |-> x.err + y.err])

FloatSub(x, y) == FloatAdd(x, FloatNeg(y))

\* 0.3 * n for an int n >= 0 (line 82): 10 * 0.3 is 3 - 2 / 2^54 as a double
FloatTimes03(n) == FloatRound([tenths |-> 3 * n, err |-> -2 * n])

\* The score of a candidate (lines 72-94).  expected_sum = n_numbers *
\* (min_num + max_num) / 2, so sum_deviation > 0.3 is 10 * |2 * ticket_sum
\* - e2| > 3 * e2 with e2 = 2 * expected_sum > 0: a quotient of two such
\* integers that is not 3 / 10 is further from it than any rounding.
Score(candidate) ==
    LET new_pairs == Cardinality(PairsOf(candidate) \ covered_pairs)
        new_triples == Cardinality(TriplesOf(candidate) \ covered_triples)
        overlap_penalty == OverlapPenalty(candidate, 1)
        odd_count == Cardinality({i \in DOMAIN candidate : candidate[i] % 2 = 1})
        ticket_sum == SumSeq(candidate)
        e2 == n_numbers * (min_num + max_num)
        score == FloatSub(FloatAdd(Float(new_pairs), FloatTimes03(new_triples)),
                          Float(overlap_penalty))
        balanced == IF ~(2 <= odd_count /\ odd_count <= 5)
                    THEN FloatSub(score, Float(5)) ELSE score
    IN  IF 10 * Abs(2 * ticket_sum - e2) > 3 * e2
        THEN FloatSub(balanced, Float(3)) ELSE balanced

\* "best_ticket = None; best_score = -1" (lines 51-52)
NoBestScore == [none |-> TRUE, ticket |-> <<>>, score |-> Float(-1)]

\* lines 96-98
ScoreStep(best, candidate) ==
    IF FloatGreater(Score(candidate), best.score)
    THEN [none |-> FALSE, ticket |-> candidate, score |-> Score(candidate)]
    ELSE best

\* every value of (best_ticket, best_score) after n samples of the Monte
\* Carlo loop (lines 54-98)
RECURSIVE BestScoredAfter(_)
BestScoredAfter(n) ==
    IF n = 0 THEN {NoBestScore}
    ELSE LET candidates == SortedSamples(all_numbers, n_numbers)
         IN  {ScoreStep(best, c) : best \in BestScoredAfter(n - 1), c \in candidates}

\* The model draws the first SamplesDrawn samples of a greedy step.  The
\* code keeps the first candidate with the highest score, so a batch
\* continued with repetitions of its last candidate picks the same ticket.
SamplesDrawn == Min(monte_carlo_samples, MaxSamples)

\* best_ticket at line 103, for every outcome of the sampling: the best
\* scored candidate, or a fresh random ticket when best_ticket is None
ChosenTickets ==
    UNION {IF best.none THEN SortedSamples(all_numbers, n_numbers) ELSE {best.ticket} :
             best \in BestScoredAfter(SamplesDrawn)}

\* random.sample raises ValueError when the sample is larger than the
\* population or negative
SampleRaises == n_numbers > Cardinality(all_numbers) \/ n_numbers < 0

\* the sequence of all (i, j), i < j, position pairs in loop order
\* (lines 136-139) is only summed, so the overlaps are kept as a bag of
\* values: their sum, count, max and min
Overlaps(pf) ==
    [q \in {r \in (DOMAIN pf) \X (DOMAIN pf) : r[1] < r[2]} |->
        Cardinality(ToSet(pf[q[1]]) \cap ToSet(pf[q[2]]))]

RECURSIVE SumOver(_, _)
SumOver(f, D) ==
    IF D = {} THEN 0
    ELSE LET d == CHOOSE x \in D : TRUE IN f[d] + SumOver(f, D \ {d})

\* number_freq: how often each used number occurs in the portfolio
NumberFreq(pf) ==
    LET used == UNION {ToSet(pf[i]) : i \in DOMAIN pf}
    IN  [n \in used |->
            Cardinality({q \in UNION {{<<i, j>> : j \in DOMAIN pf[i]} : i \in DOMAIN pf} :
                            pf[q[1]][q[2]] = n})]

\* the numbers of the portfolio in the order a Counter first sees them
RECURSIVE FirstSeen(_)
FirstSeen(flat) ==
    IF flat = <<>> THEN <<>>
    ELSE LET before == FirstSeen(SubSeq(flat, 1, Len(flat) - 1))
             x == flat[Len(flat)]
         IN  IF x \in ToSet(before) THEN before ELSE Append(before, x)

RECURSIVE Flatten(_)
Flatten(pf) == IF pf = <<>> THEN <<>> ELSE Head(pf) \o Flatten(Tail(pf))

\* _calculate_coverage_stats (lines 128-166).  Floats are kept exact:
\* a percentage and a mean as fractions, number_freq_std as the fraction
\* whose square root it is.  most_common keeps insertion order among equal
\* counts: most_used_number is the first-seen number of the highest count,
\* least_used_number the last-seen number of the lowest count.
CoverageStats(pf, cp, ct, tpp, mx) ==
    LET all_numbers_used == UNION {ToSet(pf[i]) : i \in DOMAIN pf}
        overlaps == Overlaps(pf)
        ovs == {overlaps[q] : q \in DOMAIN overlaps}
        number_freq == NumberFreq(pf)
        seen == FirstSeen(Flatten(pf))
        n == IF seen = <<>> THEN 1 ELSE Len(seen)
        sum1 == SumOver(number_freq, DOMAIN number_freq)
        sum2 == SumOver([x \in DOMAIN number_freq |-> number_freq[x] * number_freq[x]],
                        DOMAIN number_freq)
        maxf == CHOOSE c \in {number_freq[x] : x \in DOMAIN number_freq} :
                    \A x \in DOMAIN number_freq : number_freq[x] <= c
        minf == CHOOSE c \in {number_freq[x] : x \in DOMAIN number_freq} :
                    \A x \in DOMAIN number_freq : number_freq[x] >= c
        firstMax == CHOOSE i \in DOMAIN seen :
                      /\ number_freq[seen[i]] = maxf
                      /\ \A j \in 1..(i - 1) : number_freq[seen[j]] # maxf
        lastMin == CHOOSE i \in DOMAIN seen :
                      /\ number_freq[seen[i]] = minf
                      /\ \A j \in (i + 1)..Len(seen) : number_freq[seen[j]] # minf
    IN  [total_tickets |-> Len(pf),
         unique_numbers |-> Cardinality(all_numbers_used),
         number_coverage_pct |-> Pct(Cardinality(all_numbers_used), mx),
         pairs_covered |-> Cardinality(cp),
         pairs_total |-> tpp,
         pair_coverage_pct |-> IF tpp > 0 THEN Pct(Cardinality(cp), tpp) ELSE Pct(0, 1),
         triples_covered |-> Cardinality(ct),
         avg_overlap |-> IF ovs # {}
                         THEN [num |-> SumOver(overlaps, DOMAIN overlaps),
                               den |-> Cardinality(DOMAIN overlaps)]
                         ELSE [num |-> 0, den |-> 1],
         max_overlap |-> IF ovs # {} THEN CHOOSE m \in ovs : \A o \in ovs : o <= m ELSE 0,
         min_overlap |-> IF ovs # {} THEN CHOOSE m \in ovs : \A o \in ovs : o >= m ELSE 0,
         number_freq_std |-> [num |-> n * sum2 - sum1 * sum1, den |-> n * n],
         most_used_number |-> IF seen # <<>> THEN <<seen[firstMax], maxf>> ELSE <<0, 0>>,
         least_used_number |-> IF seen # <<>> THEN <<seen[lastMin], minf>> ELSE <<0, 0>>]

\* the optional monte_carlo_samples argument: <<>> is None, <<n>> is n
SamplesInputs == {<<>>} \cup {<<n>> : n \in 0..MaxSamples}

\* lines 34-48: defaults, empty portfolio and covered sets
OptCall(nt, nn, lo, hi, mcs) ==
    /\ op' = "optimize_portfolio_coverage"
    /\ pc' = "opt_loop"
    /\ n_tickets' = nt /\ n_numbers' = nn /\ min_num' = lo /\ max_num' = hi
    /\ monte_carlo_samples' = IF mcs = <<>> THEN DefaultSamples ELSE mcs[1]
    /\ portfolio' = <<>> /\ covered_pairs' = {} /\ covered_triples' = {}
    /\ UNCHANGED <<error, MAX_NUMBER, calls, sampled, coverage_stats, wheelArgs, wheelVars>>

\* fault: the loop stops one ticket early
OptLoopCondShort == Len(portfolio) < n_tickets - 1

\* the while condition of "for ticket_idx in range(n_tickets)"
OptLoopCond == Len(portfolio) < n_tickets

\* one greedy step (lines 50-112): sample and score the candidates, fall
\* back to a random ticket, append, update the covered sets
OptStep ==
    /\ pc = "opt_loop" /\ OptLoopCond /\ ~SampleRaises
    /\ \E best_ticket \in ChosenTickets :
         /\ portfolio' = Append(portfolio, best_ticket)
         /\ covered_pairs' = AddPairs(covered_pairs, best_ticket)
         /\ covered_triples' = AddTriples(covered_triples, best_ticket)
    /\ sampled' = TRUE
    /\ UNCHANGED <<pc, op, error, MAX_NUMBER, calls, coverage_stats, optArgs, wheelArgs,
                   wheelVars>>

\* a greedy step whose first random.sample raises (line 55 or 101)
OptStepRaises ==
    /\ pc = "opt_loop" /\ OptLoopCond /\ SampleRaises
    /\ pc' = "raised" /\ error' = "ValueError"
    /\ UNCHANGED <<op, MAX_NUMBER, calls, sampled, optArgs, optVars, wheelArgs, wheelVars>>

\* the loop has ended: compute the statistics and return (lines 117-125)
OptReturn ==
    /\ pc = "opt_loop" /\ ~OptLoopCond
    /\ pc' = "done"
    /\ coverage_stats' = CoverageStats(portfolio, covered_pairs, covered_triples,
                                       total_possible_pairs, max_num)
    /\ UNCHANGED <<op, error, MAX_NUMBER, calls, sampled, optArgs, portfolio, covered_pairs,
                   covered_triples, wheelArgs, wheelVars>>

Optimize ==
    \/ /\ pc = "idle"
       /\ \E nt \in -1..MaxNTickets, nn \in SizeInputs,
             lo \in MIN_NUMBER..(MIN_NUMBER + 1), mcs \in SamplesInputs :
             OptCall(nt, nn, lo, MAX_NUMBER, mcs)
    \/ OptStep
    \/ OptStepRaises
    \/ OptReturn

\* (best_ticket, best_score) after the Monte Carlo loop has scored the
\* candidates batch[i], batch[i + 1], ... in the order they were sampled
\* (lines 54-98)
RECURSIVE BestScoredOfBatch(_, _, _)
BestScoredOfBatch(batch, i, best) ==
    IF i > Len(batch) THEN best
    ELSE BestScoredOfBatch(batch, i + 1, ScoreStep(best, batch[i]))

\* what random.sample returned at line 55 (a candidate) and at line 101
\* (the fallback), each sorted by the caller
SampleLog(batch) ==
    [i \in DOMAIN batch |-> [fn |-> "random.sample", at |-> "candidate", value |-> batch[i]]]

FallbackLog(ticket) == <<[fn |-> "random.sample", at |-> "fallback", value |-> ticket]>>

\* one greedy step (lines 50-112) with the candidates it sampled, in order,
\* kept in calls: the same step as OptStep, one batch at a time
OptStepSampled ==
    /\ pc = "opt_loop" /\ OptLoopCond /\ ~SampleRaises
    /\ \E batch \in [1..SamplesDrawn -> SortedSamples(all_numbers, n_numbers)] :
         LET best == BestScoredOfBatch(batch, 1, NoBestScore)
         IN  \E fallback \in (IF best.none THEN SortedSamples(all_numbers, n_numbers)
                                          ELSE {<<>>}) :
               LET best_ticket == IF best.none THEN fallback ELSE best.ticket
               IN  /\ portfolio' = Append(portfolio, best_ticket)
                   /\ covered_pairs' = AddPairs(covered_pairs, best_ticket)
                   /\ covered_triples' = AddTriples(covered_triples, best_ticket)
                   /\ calls' = SampleLog(batch)
                                \o (IF best.none THEN FallbackLog(fallback) ELSE <<>>)
    /\ sampled' = TRUE
    /\ UNCHANGED <<pc, op, error, MAX_NUMBER, coverage_stats, optArgs, wheelArgs,
                   wheelVars>>

OptimizeSampled ==
    \/ /\ pc = "idle"
       /\ \E nt \in -1..MaxNTickets, nn \in SizeInputs,
             lo \in MIN_NUMBER..(MIN_NUMBER + 1), mcs \in SamplesInputs :
             OptCall(nt, nn, lo, MAX_NUMBER, mcs)
    \/ OptStepSampled
    \/ OptStepRaises
    \/ OptReturn

\* the optimizer called for MaxNTickets tickets of every size the larger
\* pool has, with no sample or one sample a step
ScoringCall ==
    /\ pc = "idle"
    /\ \E nn \in 1..(MAX_NUMBER + 1), lo \in MIN_NUMBER..(MIN_NUMBER + 1),
          mcs \in {<<0>>, <<1>>} :
          OptCall(MaxNTickets, nn, lo, MAX_NUMBER, mcs)

Scoring == ScoringCall \/ OptStep \/ OptStepRaises \/ OptReturn

\* generate_random_portfolio (lines 169-198): n_tickets sorted random
\* tickets, the covered sets rebuilt from them, the statistics
RandomPortfolioCall(nt, nn, lo, hi) ==
    /\ op' = "generate_random_portfolio"
    /\ n_tickets' = nt /\ n_numbers' = nn /\ min_num' = lo /\ max_num' = hi
    /\ IF nt >= 1 /\ (nn > Cardinality(lo..hi) \/ nn < 0)
       THEN /\ pc' = "raised" /\ error' = "ValueError"
            /\ UNCHANGED <<sampled, optVars>>
       ELSE /\ pc' = "done"
            /\ \E pf \in [1..Max(nt, 0) -> SortedSamples(lo..hi, nn)] :
                 LET cp == UNION {PairsOf(pf[i]) : i \in DOMAIN pf}
                     ct == UNION {TriplesOf(pf[i]) : i \in DOMAIN pf}
                 IN  /\ portfolio' = pf
                     /\ covered_pairs' = cp
                     /\ covered_triples' = ct
                     /\ coverage_stats' = CoverageStats(pf, cp, ct,
                                              TotalPossiblePairs(lo, hi), hi)
            /\ sampled' = (nt >= 1)
            /\ UNCHANGED error
    /\ UNCHANGED <<MAX_NUMBER, calls, monte_carlo_samples, wheelArgs, wheelVars>>

RandomPortfolio ==
    /\ pc = "idle"
    /\ \E nt \in -1..MaxNTickets, nn \in SizeInputs,
          lo \in MIN_NUMBER..(MIN_NUMBER + 1) :
          RandomPortfolioCall(nt, nn, lo, MAX_NUMBER)

(***************************************************************************)
(* models.py: portfolio_statistics, and _calculate_coverage_stats, called  *)
(* on the portfolio the optimizer returned                                 *)
(***************************************************************************)
\* portfolio_statistics (models.py lines 89-132), floats kept exact as in
\* CoverageStats
portfolio_statistics(pf) ==
    LET all_numbers_seen == UNION {ToSet(pf[i]) : i \in DOMAIN pf}
        overlaps == Overlaps(pf)
        ovs == {overlaps[q] : q \in DOMAIN overlaps}
        pairs == UNION {PairsOf(pf[i]) : i \in DOMAIN pf}
        total_pairs == TotalPossiblePairs(MIN_NUMBER, MAX_NUMBER)
    IN  [total_tickets |-> Len(pf),
         unique_numbers |-> Cardinality(all_numbers_seen),
         coverage_pct |-> Pct(Cardinality(all_numbers_seen), MAX_NUMBER),
         pair_coverage |-> Cardinality(pairs),
         pair_coverage_pct |-> IF total_pairs > 0 THEN Pct(Cardinality(pairs), total_pairs)
                               ELSE Pct(0, 1),
         avg_overlap |-> IF ovs # {}
                         THEN [num |-> SumOver(overlaps, DOMAIN overlaps),
                               den |-> Cardinality(DOMAIN overlaps)]
                         ELSE [num |-> 0, den |-> 1],
         max_overlap |-> IF ovs # {} THEN CHOOSE m \in ovs : \A o \in ovs : o <= m ELSE 0,
         min_overlap |-> IF ovs # {} THEN CHOOSE m \in ovs : \A o \in ovs : o >= m ELSE 0]

\* the caller computes portfolio_statistics(portfolio); the function reads
\* the portfolio and changes nothing
PortfolioStatisticsCall ==
    /\ pc = "done" /\ op = "optimize_portfolio_coverage"
    /\ Len(calls) < MaxCalls
    /\ calls' = Append(calls, [fn |-> "portfolio_statistics",
                               value |-> portfolio_statistics(portfolio)])
    /\ UNCHANGED <<pc, op, error, MAX_NUMBER, sampled, wheelArgs, wheelVars, optArgs,
                   optVars>>

\* the caller computes _calculate_coverage_stats again, with the covered
\* sets the optimizer built
CoverageStatsCall ==
    /\ pc = "done" /\ op = "optimize_portfolio_coverage"
    /\ Len(calls) < MaxCalls
    /\ calls' = Append(calls, [fn |-> "_calculate_coverage_stats",
                               value |-> CoverageStats(portfolio, covered_pairs,
                                                       covered_triples,
                                                       total_possible_pairs, max_num)])
    /\ UNCHANGED <<pc, op, error, MAX_NUMBER, sampled, wheelArgs, wheelVars, optArgs,
                   optVars>>

Statistics == PortfolioStatisticsCall \/ CoverageStatsCall

Next == Wheel \/ Verify \/ FullWheel \/ Optimize



Spec == Init /\ [][Next]_vars

\* the wheel builder alone
SpecWheel == Init /\ [][Wheel]_vars

\* the verifier and the full wheel generator alone
SpecVerifier == Init /\ [][Verify \/ FullWheel]_vars

\* the coverage optimizer alone
SpecOptimizer == Init /\ [][Optimize]_vars

\* the optimizer, and the statistics computed on its portfolio
SpecStatistics == Init /\ [][Optimize \/ Statistics]_vars

\* the steps of a call of generate_abbreviated_wheel once it has started
WheelRun == WheelIterateSearch \/ WheelIterateFallback \/ WheelIterateNone \/ WheelReturn

\* the abbreviated wheel when the interpreter keeps running: a call that
\* has started takes its next step
SpecWheelFair == Init /\ [][Wheel]_vars /\ WF_vars(WheelRun)

\* the abbreviated wheel for every max_tickets from -1
SpecWheelLimits == Init /\ [][WheelAnyLimit]_vars

\* the two producers of a portfolio
SpecPortfolios == Init /\ [][Optimize \/ RandomPortfolio]_vars

\* the abbreviated wheel with the candidates of each iteration on record
SpecWheelSampled == Init /\ [][WheelSampled]_vars

\* the optimizer on a pool of ScorePool numbers
SpecScoring == InitWith(ScorePool) /\ [][Scoring]_vars

\* the optimizer with the candidates of each greedy step on record
SpecOptimizerSampled == Init /\ [][OptimizeSampled]_vars

\* the verifier, and the cost estimate for the wheel it was run on
SpecEstimate == Init /\ [][VerifyEstimate]_vars

\* the two wheel generators
SpecWheels == Init /\ [][Wheel \/ FullWheel]_vars

\* the verifier, run again on an accepted wheel with one ticket removed
SpecVerifierRemoval == Init /\ [][VerifyRemoval]_vars

\* calls of the verifier, each followed by edits of its ticket list
SpecVerifierEdits == Init /\ [][VerifyEdits]_vars

\* the full wheel generator, and the verifier run on what it returned
SpecFullWheelVerified == Init /\ [][FullWheelVerified]_vars

\* the full wheel generator on key lists that reach its size limit
SpecFullWheelLimit == InitWith(39) /\ [][FullWheelLarge]_vars

(***************************************************************************)
(* Properties.  They are stated on sets, independently of the loops and    *)
(* enumerations of the model above.                                        *)
(***************************************************************************)
\* the k-element subsets of a set
KSubsets(S, k) == {T \in SUBSET S : Cardinality(T) = k}

\* hit-subset H is covered by a ticket of tks
CoveredBySome(H, tks, gm) ==
    \E i \in DOMAIN tks : Cardinality(H \cap ToSet(tks[i])) >= gm

\* the wheeling guarantee: every gih-subset of the keys is covered
GuaranteeHolds(tks, keys, gih, gm) ==
    \A H \in KSubsets(ToSet(keys), gih) : CoveredBySome(H, tks, gm)

\* the hit-subsets that no ticket covers
UncoveredSubsets(tks, keys, gih, gm) ==
    {H \in KSubsets(ToSet(keys), gih) : ~CoveredBySome(H, tks, gm)}

\* a valid ticket: n values, all in lo..hi, distinct, sorted ascending
ValidTicket(t, n, lo, hi) ==
    /\ Len(t) = n
    /\ \A i \in DOMAIN t : lo <= t[i] /\ t[i] <= hi
    /\ \A i, j \in DOMAIN t : i < j => t[i] < t[j]

WheelReturned == pc = "done" /\ op = "generate_abbreviated_wheel"

\* C1: when generate_abbreviated_wheel returns, verified = true means every
\* guarantee_if_hit-subset of the keys has guarantee_match numbers in some
\* returned ticket, and verified = false means some subset has not.
C1_VerifiedIsGuarantee ==
    WheelReturned =>
        /\ guarantee.verified = TRUE =>
             GuaranteeHolds(tickets, key_numbers, guarantee_if_hit, guarantee_match)
        /\ guarantee.verified = FALSE =>
             UncoveredSubsets(tickets, key_numbers, guarantee_if_hit,
                              guarantee_match) # {}

C1_Witness ==
    /\ WheelReturned /\ guarantee.verified = TRUE
    /\ Len(tickets) = 2 /\ guarantee_match < guarantee_if_hit

\* C2: verify_wheel_guarantee returns true iff every combination is
\* covered; when it returns false the subset it reports is uncovered and
\* every combination enumerated before it is covered; the call changes
\* neither tickets nor key_numbers.
C2_VerifierState ==
    (pc = "done" /\ op = "verify_wheel_guarantee") =>
        LET combos == Combinations(key_numbers, guarantee_if_hit)
        IN  /\ result = GuaranteeHolds(tickets, key_numbers, guarantee_if_hit,
                                       guarantee_match)
            /\ result = (log_uncovered = <<>>)
            /\ ~result =>
                 \E i \in DOMAIN combos :
                    /\ log_uncovered = <<combos[i]>>
                    /\ ~CoveredBySome(ToSet(combos[i]), tickets, guarantee_match)
                    /\ \A j \in 1..(i - 1) :
                          CoveredBySome(ToSet(combos[j]), tickets, guarantee_match)

C2_VerifierExact ==
    /\ []C2_VerifierState
    /\ [][pc = "verify_ready" =>
            tickets' = tickets /\ key_numbers' = key_numbers]_vars

C2_Witness ==
    /\ pc = "done" /\ op = "verify_wheel_guarantee" /\ ~result
    /\ Len(tickets) = 2
    /\ log_uncovered # <<Combinations(key_numbers, guarantee_if_hit)[1]>>

\* C3: generate_abbreviated_wheel raises ValueError exactly when
\* |key_numbers| < guarantee_if_hit, guarantee_match > guarantee_if_hit or
\* guarantee_match > n_per_ticket; it has then sampled nothing and built no
\* ticket and no report, and its arguments are as passed.
C3_PreconditionsRaise ==
    op = "generate_abbreviated_wheel" =>
        /\ (pc = "raised") =
             (\/ Len(key_numbers) < guarantee_if_hit
              \/ guarantee_match > guarantee_if_hit
              \/ guarantee_match > n_per_ticket)
        /\ pc = "raised" =>
             /\ error = "ValueError"
             /\ ~sampled /\ tickets = <<>> /\ hit_subsets = <<>>
             /\ guarantee = None

C3_Witness ==
    /\ op = "generate_abbreviated_wheel" /\ pc = "raised"
    /\ guarantee_match > n_per_ticket
    /\ guarantee_match <= guarantee_if_hit
    /\ Len(key_numbers) >= guarantee_if_hit

\* C4: when the wheel returns with max_tickets reached and some hit-subset
\* covered by no ticket, it has not raised, verified is false,
\* uncovered_remaining is positive and is the number of hit-subsets no
\* returned ticket covers, and the report carries the warning.
C4_IncompleteIsReported ==
    (/\ WheelReturned
     /\ Len(tickets) >= max_tickets
     /\ UncoveredSubsets(tickets, key_numbers, guarantee_if_hit,
                         guarantee_match) # {}) =>
        /\ error = "none"
        /\ guarantee.verified = FALSE
        /\ guarantee.n_tickets = Len(tickets)
        /\ guarantee.uncovered_remaining > 0
        /\ guarantee.uncovered_remaining =
             Cardinality(UncoveredSubsets(tickets, key_numbers, guarantee_if_hit,
                                          guarantee_match))
        /\ guarantee.warning # <<>>

C4_Witness ==
    /\ WheelReturned /\ Len(tickets) = max_tickets /\ max_tickets = 2
    /\ guarantee.verified = FALSE /\ guarantee.uncovered_remaining >= 2

OptCalled == op = "optimize_portfolio_coverage"

\* C6: every ticket of the optimizer's portfolio has n_numbers values, all
\* in min_num..max_num, distinct and sorted ascending.
C6_PortfolioTicketsValid ==
    OptCalled =>
        \A i \in DOMAIN portfolio :
            ValidTicket(portfolio[i], n_numbers, min_num, max_num)

C6_Witness ==
    /\ OptCalled /\ pc = "done" /\ Len(portfolio) = 2 /\ n_numbers = 3
    /\ monte_carlo_samples = 1

\* C7: for n_tickets = k >= 1, any monte_carlo_samples >= 0 and a draw size
\* that fits the pool, the optimizer never raises, never holds more than k
\* tickets, and returns exactly k tickets with total_tickets = k.
C7_ExactlyKTickets ==
    (/\ OptCalled /\ n_tickets >= 1 /\ monte_carlo_samples >= 0
     /\ n_numbers <= max_num - min_num + 1) =>
        /\ pc # "raised" /\ error = "none"
        /\ Len(portfolio) <= n_tickets
        /\ pc = "done" =>
             /\ Len(portfolio) = n_tickets
             /\ coverage_stats.total_tickets = n_tickets

C7_Witness ==
    /\ OptCalled /\ pc = "done" /\ monte_carlo_samples = 0
    /\ n_tickets = 2 /\ Len(portfolio) = 2

\* C8: while the optimizer runs, covered_pairs only grows from one appended
\* ticket to the next, its size is at most C(pool_size, 2), which is
\* total_possible_pairs, and the returned pair_coverage_pct is at most 100.
C8_StateBound ==
    (OptCalled /\ max_num >= min_num) =>
        /\ total_possible_pairs = comb(max_num - min_num + 1, 2)
        /\ Cardinality(covered_pairs) <= total_possible_pairs
        /\ pc = "done" =>
             /\ coverage_stats.pairs_covered = Cardinality(covered_pairs)
             /\ coverage_stats.pair_coverage_pct.num
                  <= 100 * coverage_stats.pair_coverage_pct.den

C8_MonotonicCoverage ==
    /\ []C8_StateBound
    /\ [][pc = "opt_loop" =>
            /\ covered_pairs \subseteq covered_pairs'
            /\ Cardinality(covered_pairs') >= Cardinality(covered_pairs)]_vars

C8_Witness ==
    /\ OptCalled /\ Len(portfolio) = 2
    /\ Cardinality(covered_pairs) > Cardinality(PairsOf(portfolio[1]))
    /\ Cardinality(covered_pairs) > Cardinality(PairsOf(portfolio[2]))

\* C9: a call of the optimizer with n_tickets < 1 or n_numbers greater than
\* the pool size samples no candidate and returns no portfolio (it fails
\* with an error instead).
C9_InvalidArgumentsFail ==
    (/\ OptCalled
     /\ (n_tickets < 1 \/ n_numbers > max_num - min_num + 1)) =>
        /\ ~sampled
        /\ pc # "done"

FullWheelReturned == pc = "done" /\ op = "generate_full_wheel"

\* C10: a successful generate_full_wheel returns C(|keys|, n_per_ticket)
\* tickets: every n_per_ticket-subset of the keys exactly once, as a sorted
\* ticket of key numbers only.
C10_FullWheelIsAllCombinations ==
    FullWheelReturned =>
        /\ Len(tickets) = comb(Len(key_numbers), n_per_ticket)
        /\ \A i \in DOMAIN tickets :
              /\ ValidTicket(tickets[i], n_per_ticket, MIN_NUMBER, MAX_NUMBER)
              /\ ToSet(tickets[i]) \subseteq ToSet(key_numbers)
        /\ \A i, j \in DOMAIN tickets : i # j => tickets[i] # tickets[j]
        /\ \A D \in KSubsets(ToSet(key_numbers), n_per_ticket) :
              \E i \in DOMAIN tickets : ToSet(tickets[i]) = D

C10_Witness ==
    /\ FullWheelReturned /\ Len(key_numbers) = 4 /\ n_per_ticket = 2
    /\ Len(tickets) = 6

\* C(n, k) > 500, by counting the k-subsets of 1..n
TooManyTickets(n, k) == Cardinality(KSubsets(1..n, k)) > 500

\* C11: generate_full_wheel raises ValueError, with no ticket and no report
\* built, exactly when it has fewer keys than n_per_ticket or
\* C(|keys|, n_per_ticket) > 500; a count of 500 or fewer is accepted and
\* the tickets are returned.
C11_FullWheelRefusal ==
    op = "generate_full_wheel" =>
        /\ pc \in {"raised", "done"}
        /\ (pc = "raised") =
             (\/ Len(key_numbers) < n_per_ticket
              \/ TooManyTickets(Len(key_numbers), n_per_ticket))
        /\ pc = "raised" =>
             error = "ValueError" /\ tickets = <<>> /\ guarantee = None
        /\ pc = "done" =>
             /\ error = "none"
             /\ 1 <= Len(tickets) /\ Len(tickets) <= 500
             /\ guarantee.n_tickets = Len(tickets)

C11_Witness ==
    /\ op = "generate_full_wheel" /\ pc = "raised"
    /\ Len(key_numbers) = 13 /\ n_per_ticket = 4

\* C12: with exactly n_per_ticket key numbers generate_full_wheel does not
\* raise and returns one ticket, the sorted key numbers; the verifier run on
\* it with guarantee_if_hit = guarantee_match = n_per_ticket returns true.
C12_SingleTicketWheel ==
    (op = "generate_full_wheel" /\ Len(key_numbers) = n_per_ticket) =>
        /\ pc \in {"done", "verified"}
        /\ tickets = <<key_numbers>>
        /\ ValidTicket(tickets[1], n_per_ticket, MIN_NUMBER, MAX_NUMBER)
        /\ (/\ pc = "verified"
            /\ guarantee_if_hit = n_per_ticket
            /\ guarantee_match = n_per_ticket) => result = TRUE

C12_Witness ==
    /\ op = "generate_full_wheel" /\ pc = "verified"
    /\ Len(key_numbers) = 3 /\ n_per_ticket = 3
    /\ guarantee_if_hit = 3 /\ guarantee_match = 3 /\ result = TRUE

\* C13: when guarantee_match = guarantee_if_hit = |key_numbers| =
\* n_per_ticket and max_tickets >= 1, generate_abbreviated_wheel returns,
\* whatever is sampled, the ticket list of generate_full_wheel on the same
\* keys: the one ticket of the sorted keys, with verified = true.
C13_ReducesToFullWheel ==
    (/\ op = "generate_abbreviated_wheel"
     /\ guarantee_match = guarantee_if_hit
     /\ guarantee_if_hit = Len(key_numbers)
     /\ Len(key_numbers) = n_per_ticket
     /\ max_tickets >= 1) =>
        /\ pc # "raised"
        /\ Len(tickets) <= 1
        /\ pc = "done" =>
             /\ tickets = <<key_numbers>>
             /\ tickets = FullWheelTickets(key_numbers, n_per_ticket)
             /\ guarantee.verified = TRUE
             /\ guarantee.n_tickets = 1

C13_Witness ==
    /\ WheelReturned /\ Len(key_numbers) = 3 /\ n_per_ticket = 3
    /\ guarantee_if_hit = 3 /\ guarantee_match = 3 /\ max_tickets = 2
    /\ Len(tickets) = 1

\* C14: when a ticket is removed from a wheel the verifier accepted and some
\* hit-subset was covered by that ticket and by no other ticket of the
\* wheel, the verifier run on the remaining tickets returns false.
C14_RemovalStep ==
    (pc = "done" /\ op = "verify_wheel_guarantee" /\ pc' = "reverified") =>
        /\ result = TRUE
        /\ key_numbers' = key_numbers
        /\ guarantee_if_hit' = guarantee_if_hit
        /\ guarantee_match' = guarantee_match
        /\ Len(tickets') = Len(tickets) - 1
        /\ (\E H \in KSubsets(ToSet(key_numbers), guarantee_if_hit) :
               /\ CoveredBySome(H, tickets, guarantee_match)
               /\ ~CoveredBySome(H, tickets', guarantee_match))
             => result' = FALSE

C14_RemovalDetected == [][C14_RemovalStep]_vars

C14_Witness ==
    /\ pc = "reverified" /\ result = FALSE
    /\ Len(tickets) = 1 /\ guarantee_match < guarantee_if_hit

\* C15: with distinct key numbers of the pool and n_per_ticket within the
\* pool size, every ticket that generate_abbreviated_wheel holds or returns
\* (from the search, the padding or the fallback) and every ticket of
\* generate_full_wheel has n_per_ticket values, all in the pool, distinct
\* and sorted ascending.
C15_WheelTicketsValid ==
    (/\ op \in {"generate_abbreviated_wheel", "generate_full_wheel"}
     /\ n_per_ticket <= MAX_NUMBER - MIN_NUMBER + 1) =>
        \A i \in DOMAIN tickets :
            ValidTicket(tickets[i], n_per_ticket, MIN_NUMBER, MAX_NUMBER)

C15_Witness ==
    /\ WheelReturned /\ Len(tickets) = 2
    /\ guarantee_if_hit > n_per_ticket /\ n_per_ticket >= 2

\* C17: estimated_min_tickets of wheel_cost_estimate is a lower bound: for
\* guarantee_match <= guarantee_if_hit <= n_key_numbers (guarantee_if_hit >
\* guarantee_match included) no list of fewer valid tickets passes
\* verify_wheel_guarantee.
C17_EstimateIsLowerBound ==
    (/\ op = "verify_wheel_guarantee" /\ pc = "done" /\ result = TRUE
     /\ guarantee_match <= guarantee_if_hit
     /\ guarantee_if_hit <= Len(key_numbers)
     /\ calls # <<>>
     /\ \A i \in DOMAIN tickets :
           ValidTicket(tickets[i], Len(tickets[1]), MIN_NUMBER, MAX_NUMBER)) =>
        Len(tickets) >= calls[1].value.estimated_min_tickets

\* the candidates the last greedy step scored, in sampling order, and
\* whether it drew the fallback ticket
ScoredCandidates == SelectSeq(calls, LAMBDA e : e.at = "candidate")

FallbackDrawn == \E i \in DOMAIN calls : calls[i].at = "fallback"

StepSampled == op = "optimize_portfolio_coverage" /\ calls # <<>>

\* C19: the uniform-random fallback ticket is drawn for a slot only if the
\* greedy step scored no candidate; whenever at least one candidate was
\* scored, the appended ticket is one of the scored candidates, whatever
\* their scores are.
C19_FallbackOnlyWhenUnscored ==
    (StepSampled /\ ScoredCandidates # <<>>)
        => /\ ~FallbackDrawn
           /\ \E i \in DOMAIN ScoredCandidates :
                 portfolio[Len(portfolio)] = ScoredCandidates[i].value

\* C18: in every greedy step with monte_carlo_samples >= 1 the appended
\* ticket is the candidate with the highest score among the candidates
\* sampled in that step, and among the candidates tied at that score the
\* first one sampled.  The scores are those of the state the step starts in.
C18_GreedyStep ==
    (pc = "opt_loop" /\ OptLoopCond /\ monte_carlo_samples >= 1
       /\ Len(portfolio') = Len(portfolio) + 1)
        => LET scored == SelectSeq(calls', LAMBDA e : e.at = "candidate")
               appended == portfolio'[Len(portfolio')]
           IN  \E i \in DOMAIN scored :
                 /\ scored[i].value = appended
                 /\ \A j \in DOMAIN scored :
                       ~FloatGreater(Score(scored[j].value), Score(appended))
                 /\ \A j \in 1..(i - 1) :
                       FloatGreater(Score(appended), Score(scored[j].value))

C18_AppendsFirstHighestScored == [][C18_GreedyStep]_vars

\* the score as the documentation states it for a sorted candidate in the
\* current state of the optimizer: the float value of the stated
\* expression, its terms taken in the order they are written
StatedScore(c) ==
    LET nums == ToSet(c)
        pairs == {q \in nums \X nums : q[1] < q[2]}
        triples == {q \in nums \X nums \X nums : q[1] < q[2] /\ q[2] < q[3]}
        share == [i \in DOMAIN portfolio |-> Cardinality(nums \cap ToSet(portfolio[i]))]
        sharing5 == {i \in DOMAIN portfolio : share[i] >= 5}
        penalty == SumOver([i \in sharing5 |-> (share[i] - 4) * 3], sharing5)
        odd == Cardinality({x \in nums : x % 2 = 1})
        total == SumOver([x \in nums |-> x], nums)
        expected2 == n_numbers * (min_num + max_num)
        formula == FloatSub(FloatAdd(Float(Cardinality(pairs \ covered_pairs)),
                                     FloatTimes03(Cardinality(triples \ covered_triples))),
                            Float(penalty))
        less5 == IF odd < 2 \/ odd > 5 THEN FloatSub(formula, Float(5)) ELSE formula
    IN  IF 10 * Abs(2 * total - expected2) > 3 * expected2
        THEN FloatSub(less5, Float(3)) ELSE less5

\* the stated value as a real number, times 10
StatedTenths(c) ==
    LET nums == ToSet(c)
        pairs == {q \in nums \X nums : q[1] < q[2]}
        triples == {q \in nums \X nums \X nums : q[1] < q[2] /\ q[2] < q[3]}
        penalty == SumSeq([i \in DOMAIN portfolio |->
                      LET share == Cardinality(nums \cap ToSet(portfolio[i]))
                      IN  IF share >= 5 THEN (share - 4) * 3 ELSE 0])
        odd == Cardinality({x \in nums : x % 2 = 1})
        expected2 == n_numbers * (min_num + max_num)
    IN  10 * Cardinality(pairs \ covered_pairs)
        + 3 * Cardinality(triples \ covered_triples)
        - 10 * penalty
        - (IF odd < 2 \/ odd > 5 THEN 50 ELSE 0)
        - (IF 10 * Abs(2 * SumSeq(c) - expected2) > 3 * expected2 THEN 30 ELSE 0)

\* C20: the score of a candidate is new_pairs + 0.3 * new_triples -
\* overlap_penalty, minus 5 if its odd count is outside [2, 5], minus 3 if
\* its sum deviates from n_numbers * (min_num + max_num) / 2 by more than
\* 30 percent; new_pairs and new_triples count its pairs and triples not
\* yet covered, and overlap_penalty sums (overlap - 4) * 3 over exactly the
\* portfolio tickets that share 5 or more numbers with it.  The score is
\* the float value of that expression, and it is the stated real number up
\* to the rounding of at most five float operations.
C20_ScoreFormula ==
    (pc = "opt_loop" /\ ~SampleRaises)
        => \A c \in SortedSamples(all_numbers, n_numbers) :
              /\ Score(c) = StatedScore(c)
              /\ Score(c).tenths = StatedTenths(c)
              /\ Abs(Score(c).err) <= 2^14

\* a candidate that shares 5 or more numbers with one ticket of the
\* portfolio and 1 to 4 numbers with another, and a candidate whose float
\* score is not the stated real number
C20_Witness ==
    /\ pc = "opt_loop" /\ ~SampleRaises
    /\ \E c \in SortedSamples(all_numbers, n_numbers) :
         /\ \E i, j \in DOMAIN portfolio :
               /\ Cardinality(ToSet(c) \cap ToSet(portfolio[i])) >= 5
               /\ Cardinality(ToSet(c) \cap ToSet(portfolio[j])) \in 1..4
         /\ Score(c).tenths < 0
         /\ Score(c) = StatedScore(c)
    /\ \E c \in SortedSamples(all_numbers, n_numbers) :
         /\ Score(c).err # 0
         /\ Score(c) = StatedScore(c)

\* the uncovered hit-subsets (indices from 0) of which a ticket holds at
\* least guarantee_match numbers
CoversOfUncovered(t) ==
    {idx \in uncovered : Cardinality(ToSet(hit_subsets[idx + 1]) \cap ToSet(t)) >= guarantee_match}

\* the candidates of n_per_ticket numbers among a list of sampled ones, in
\* sampling order: the candidates the loop evaluates (line 155 drops the
\* others)
Evaluated(log) ==
    SelectSeq(log, LAMBDA e : e.at = "candidate" /\ Len(e.value) = n_per_ticket)

\* C21: in every iteration of the wheel-building loop in which at least one
\* sampled candidate covers a currently uncovered hit-subset, the appended
\* ticket is the first sampled candidate that covers the most uncovered
\* hit-subsets among the candidates of the iteration, and exactly the
\* subsets it covers leave the uncovered set.
C21_WheelIteration ==
    (pc = "wheel_loop" /\ WheelLoopCond /\ iteration' # iteration
       /\ \E i \in DOMAIN Evaluated(calls') :
             CoversOfUncovered(Evaluated(calls')[i].value) # {})
        => LET evaluated == Evaluated(calls')
           IN  \E i \in DOMAIN evaluated :
                 /\ tickets' = Append(tickets, evaluated[i].value)
                 /\ uncovered' = uncovered \ CoversOfUncovered(evaluated[i].value)
                 /\ \A j \in DOMAIN evaluated :
                       Cardinality(CoversOfUncovered(evaluated[j].value))
                           <= Cardinality(CoversOfUncovered(evaluated[i].value))
                 /\ \A j \in 1..(i - 1) :
                       Cardinality(CoversOfUncovered(evaluated[j].value))
                           < Cardinality(CoversOfUncovered(evaluated[i].value))

C21_AppendsFirstBestCandidate == [][C21_WheelIteration]_vars

\* an iteration has just appended the second of two different candidates,
\* because it covers more than the first
C21_Witness ==
    /\ pc = "wheel_loop" /\ op = "generate_abbreviated_wheel" /\ Len(calls) = BatchLen
    /\ Len(calls) >= 2 /\ tickets # <<>>
    /\ calls[1].value # calls[2].value
    /\ tickets[Len(tickets)] = calls[2].value
    /\ uncovered # {}

\* C23: for every input that passes the three precondition checks,
\* generate_abbreviated_wheel terminates: the loop does not iterate forever
\* without appending a ticket, and it runs at most max_tickets iterations.
C23_WheelTerminates ==
    /\ [](op = "generate_abbreviated_wheel" => <>(pc \in {"done", "raised"}))
    /\ []((op = "generate_abbreviated_wheel" /\ pc # "raised")
            => iteration <= Max(max_tickets, 0))

\* C22: every iteration of the wheel-building loop appends exactly one
\* ticket, and that ticket covers at least one hit-subset that was
\* uncovered before the iteration (the force-built ticket included); so
\* the uncovered set strictly shrinks on every iteration and the tickets
\* are never more than the hit-subsets C(|key_numbers|, guarantee_if_hit).
C22_IterationStep ==
    (pc = "wheel_loop" /\ pc' = "wheel_loop")
        => /\ Len(tickets') = Len(tickets) + 1
           /\ SubSeq(tickets', 1, Len(tickets)) = tickets
           /\ CoversOfUncovered(tickets'[Len(tickets')]) # {}
           /\ uncovered' \subseteq uncovered /\ uncovered' # uncovered

C22_TicketsBound ==
    (op = "generate_abbreviated_wheel" /\ pc # "raised")
        => Len(tickets) <= Cardinality(KSubsets(ToSet(key_numbers), guarantee_if_hit))

C22_EveryIterationCovers == []C22_TicketsBound /\ [][C22_IterationStep]_vars

\* no ticket is appended once every hit-subset is covered
NoTicketOnceCovered ==
    (op = "generate_abbreviated_wheel" /\ pc = "wheel_loop"
       /\ GuaranteeHolds(tickets, key_numbers, guarantee_if_hit, guarantee_match))
        => tickets' = tickets

\* the loop has stopped for one of its two reasons, and not beyond the limit
StoppedAtLimit ==
    /\ \/ GuaranteeHolds(tickets, key_numbers, guarantee_if_hit, guarantee_match)
       \/ Len(tickets) >= max_tickets
    /\ max_tickets >= 0 => Len(tickets) <= max_tickets

\* C24: generate_abbreviated_wheel stops exactly when the uncovered set is
\* empty or the ticket count has reached max_tickets: the returned list
\* never has more than max_tickets tickets (for max_tickets >= 0), no
\* ticket is appended once every hit-subset is covered, and if the report
\* says verified = false then exactly max_tickets tickets were returned.
C24_ReturnedAtLimit ==
    WheelReturned
        => /\ StoppedAtLimit
           /\ guarantee.verified = FALSE => Len(tickets) = max_tickets

C24_StopsExactlyAtLimit == []C24_ReturnedAtLimit /\ [][NoTicketOnceCovered]_vars

\* C24 as the code has it: a report with verified = false comes with
\* exactly max(max_tickets, 0) tickets, none for a negative max_tickets.
C24_ReturnedAtLimitOrEmpty ==
    WheelReturned
        => /\ StoppedAtLimit
           /\ guarantee.verified = FALSE => Len(tickets) = Max(max_tickets, 0)

C24_StopsAtLimitOrEmpty == []C24_ReturnedAtLimitOrEmpty /\ [][NoTicketOnceCovered]_vars

\* an unverified wheel was returned with max_tickets tickets, two or more
C24_Witness ==
    /\ WheelReturned /\ guarantee.verified = FALSE
    /\ max_tickets >= 2 /\ Len(tickets) = max_tickets

PortfolioReturned ==
    pc = "done" /\ op \in {"optimize_portfolio_coverage", "generate_random_portfolio"}

\* C25: for the portfolio that optimize_portfolio_coverage or
\* generate_random_portfolio returns on the default pool, the statistics
\* returned with it (total_tickets, unique_numbers, number_coverage_pct,
\* pairs_covered, pair_coverage_pct, min, avg and max overlap) equal the
\* values portfolio_statistics computes from the finished portfolio alone.
C25_StatisticsAgree ==
    (PortfolioReturned /\ min_num = MIN_NUMBER /\ max_num = MAX_NUMBER)
        => LET recomputed == portfolio_statistics(portfolio)
           IN  /\ coverage_stats.total_tickets = recomputed.total_tickets
               /\ coverage_stats.unique_numbers = recomputed.unique_numbers
               /\ coverage_stats.number_coverage_pct = recomputed.coverage_pct
               /\ coverage_stats.pairs_covered = recomputed.pair_coverage
               /\ coverage_stats.pair_coverage_pct = recomputed.pair_coverage_pct
               /\ coverage_stats.min_overlap = recomputed.min_overlap
               /\ coverage_stats.avg_overlap = recomputed.avg_overlap
               /\ coverage_stats.max_overlap = recomputed.max_overlap

\* the optimizer has returned two tickets that share a pair but are not
\* the same ticket
C25_Witness ==
    /\ PortfolioReturned /\ op = "optimize_portfolio_coverage"
    /\ min_num = MIN_NUMBER /\ max_num = MAX_NUMBER
    /\ Len(portfolio) = 2 /\ portfolio[1] # portfolio[2]
    /\ PairsOf(portfolio[1]) \cap PairsOf(portfolio[2]) # {}
    /\ coverage_stats.pairs_covered = portfolio_statistics(portfolio).pair_coverage

\* C26: after every loop iteration the uncovered set is exactly the set of
\* hit-subsets that no ticket appended so far covers; so at return
\* verified = true iff uncovered_remaining = 0 iff coverage_pct = 100, and
\* subsets_covered + uncovered_remaining = subsets_to_cover =
\* C(|key_numbers|, guarantee_if_hit).
C26_BookkeepingAgrees ==
    (op = "generate_abbreviated_wheel" /\ pc \in {"wheel_loop", "done"})
        => /\ {ToSet(hit_subsets[idx + 1]) : idx \in uncovered}
                = UncoveredSubsets(tickets, key_numbers, guarantee_if_hit,
                                   guarantee_match)
           /\ Cardinality({ToSet(hit_subsets[idx + 1]) : idx \in uncovered})
                = Cardinality(uncovered)
           /\ pc = "done" =>
                /\ guarantee.verified = TRUE <=> guarantee.uncovered_remaining = 0
                /\ guarantee.uncovered_remaining = 0
                     <=> guarantee.coverage_pct.num = 100 * guarantee.coverage_pct.den
                /\ guarantee.subsets_covered + guarantee.uncovered_remaining
                     = guarantee.subsets_to_cover
                /\ guarantee.subsets_to_cover
                     = Cardinality(KSubsets(ToSet(key_numbers), guarantee_if_hit))
                /\ guarantee.uncovered_remaining = Cardinality(uncovered)

\* a wheel was returned with some hit-subsets covered and some not, after
\* a ticket that covered several at once
C26_Witness ==
    /\ WheelReturned /\ guarantee.verified = FALSE
    /\ Len(tickets) = 1
    /\ guarantee.subsets_covered >= 2 /\ guarantee.uncovered_remaining >= 1

\* the pairs and the triples of numbers, in ascending order, that some
\* ticket of the portfolio contains
PairsInPortfolio ==
    {q \in all_numbers \X all_numbers :
        q[1] < q[2] /\ \E i \in DOMAIN portfolio : {q[1], q[2]} \subseteq ToSet(portfolio[i])}

TriplesInPortfolio ==
    {q \in all_numbers \X all_numbers \X all_numbers :
        /\ q[1] < q[2] /\ q[2] < q[3]
        /\ \E i \in DOMAIN portfolio : {q[1], q[2], q[3]} \subseteq ToSet(portfolio[i])}

CoveredSetsExact ==
    /\ covered_pairs = PairsInPortfolio
    /\ covered_triples = TriplesInPortfolio

PoolPairs == (Cardinality(all_numbers) * (Cardinality(all_numbers) - 1)) \div 2

\* C27: in every state of optimize_portfolio_coverage after a ticket has
\* been appended, covered_pairs is exactly the set of pairs (a, b), a < b,
\* contained in some ticket of the portfolio so far and covered_triples
\* exactly the set of triples contained in some ticket; consequently for a
\* portfolio of k >= 1 tickets, 21 <= pairs_covered <= min(21 * k,
\* C(pool_size, 2)).
C27_CoveredSetsAnd21 ==
    (OptCalled /\ portfolio # <<>>)
        => /\ CoveredSetsExact
           /\ 21 <= Cardinality(covered_pairs)
           /\ Cardinality(covered_pairs) <= Min(21 * Len(portfolio), PoolPairs)

\* C27 for tickets of any size: a ticket of n_numbers numbers has
\* C(n_numbers, 2) pairs, 21 when n_numbers is 7.
C27_CoveredSetsAndPairCount ==
    (OptCalled /\ portfolio # <<>>)
        => LET per_ticket == (n_numbers * (n_numbers - 1)) \div 2
           IN  /\ CoveredSetsExact
               /\ per_ticket <= Cardinality(covered_pairs)
               /\ Cardinality(covered_pairs) <= Min(per_ticket * Len(portfolio), PoolPairs)

\* two appended tickets share a pair and each has a triple of its own
C27_Witness ==
    /\ OptCalled /\ Len(portfolio) = 2
    /\ PairsOf(portfolio[1]) \cap PairsOf(portfolio[2]) # {}
    /\ Cardinality(covered_triples) = 2
    /\ Cardinality(covered_pairs) < 2 * Cardinality(PairsOf(portfolio[1]))

\* how many of the key numbers a ticket holds
KeysIn(t) == Cardinality(ToSet(t) \cap ToSet(key_numbers))

\* C28: every ticket returned by generate_abbreviated_wheel holds at least
\* guarantee_match of the key numbers, on the candidate-search path and on
\* the force-construct fallback path, also when guarantee_if_hit >
\* n_per_ticket and the fallback cuts the hit-subset to n_per_ticket
\* numbers.  The fallback is checked for every uncovered subset of every
\* state of the loop, whether the iteration used it or not.
C28_TicketsHoldKeys ==
    (op = "generate_abbreviated_wheel" /\ pc \in {"wheel_loop", "done"})
        => /\ \A i \in DOMAIN tickets : KeysIn(tickets[i]) >= guarantee_match
           /\ pc = "wheel_loop" =>
                \A idx \in uncovered : \A forced \in ForceTickets(idx) :
                    Len(forced) = n_per_ticket => KeysIn(forced) >= guarantee_match

\* a wheel was returned for hit-subsets larger than a ticket, one of its
\* tickets with just guarantee_match key numbers and a number that is no
\* key number
C28_Witness ==
    /\ WheelReturned /\ guarantee_if_hit > n_per_ticket
    /\ tickets # <<>> /\ guarantee.verified = TRUE
    /\ \E i \in DOMAIN tickets :
         KeysIn(tickets[i]) = guarantee_match /\ KeysIn(tickets[i]) < n_per_ticket

\* C29: the ticket list of a successful generate_full_wheel(key_numbers,
\* n_per_ticket) passes verify_wheel_guarantee for every guarantee with
\* guarantee_match <= guarantee_if_hit <= |key_numbers| and
\* guarantee_match <= n_per_ticket, so its verified = True and
\* coverage_pct = 100 are never contradicted by the verifier.
C29_FullWheelPassesVerifier ==
    (/\ op = "generate_full_wheel" /\ pc = "verified"
     /\ guarantee_match <= guarantee_if_hit
     /\ guarantee_if_hit <= Len(key_numbers)
     /\ guarantee_match <= n_per_ticket)
        => /\ result = TRUE
           /\ result = guarantee.verified
           /\ guarantee.coverage_pct.num = 100 * guarantee.coverage_pct.den
           /\ GuaranteeHolds(tickets, key_numbers, guarantee_if_hit, guarantee_match)

\* a full wheel of several tickets has passed the verifier for hit-subsets
\* larger than a ticket
C29_Witness ==
    /\ op = "generate_full_wheel" /\ pc = "verified" /\ result = TRUE
    /\ Len(tickets) >= 3
    /\ guarantee_if_hit > n_per_ticket /\ guarantee_match = n_per_ticket
    /\ guarantee_if_hit <= Len(key_numbers)

\* the verifier has returned for the tickets, keys and guarantee in the state
VerifierReturned ==
    op = "verify_wheel_guarantee" /\ pc \in {"done", "reverified"}

\* C30: verify_wheel_guarantee is monotone and order-insensitive in its
\* ticket list: when it returned True for a list, it returns True for the
\* list with a ticket added, reordered or with a ticket duplicated (same
\* keys and guarantee); with an empty ticket list it returns False whenever
\* guarantee_if_hit <= |key_numbers|.
C30_EditStep ==
    (VerifierReturned /\ result = TRUE /\ pc' = "reverified")
        => /\ result' = TRUE
           /\ key_numbers' = key_numbers
           /\ guarantee_if_hit' = guarantee_if_hit
           /\ guarantee_match' = guarantee_match

C30_EmptyListFails ==
    (VerifierReturned /\ tickets = <<>> /\ guarantee_if_hit <= Len(key_numbers))
        => result = FALSE

C30_MonotoneOrderInsensitive == []C30_EmptyListFails /\ [][C30_EditStep]_vars

\* a list of three tickets, reached by an edit of a shorter accepted list,
\* is accepted although its first ticket alone covers no hit-subset
C30_Witness ==
    /\ op = "verify_wheel_guarantee" /\ pc = "reverified" /\ result = TRUE
    /\ Len(tickets) = 3
    /\ guarantee_if_hit >= 2 /\ guarantee_if_hit <= Len(key_numbers)
    /\ guarantee_match >= 1
    /\ ~verify_wheel_guarantee(<<tickets[1]>>, key_numbers, guarantee_if_hit,
                               guarantee_match)
    /\ ~verify_wheel_guarantee(<<tickets[3]>>, key_numbers, guarantee_if_hit,
                               guarantee_match)

====
